---- MODULE Spec2Model ----
(***************************************************************************)
(* A model of ateam.sim.setup.sim_manager.SimManager: the network registry *)
(* (_networks_active, _nodes_dict), the edge index (_edges_dict), the      *)
(* in-memory config document and the files on disk.                        *)
(*                                                                         *)
(* Strings are sequences of atoms; the atom "_" is the underscore, every   *)
(* other atom is a run of characters that holds no underscore.  A path is  *)
(* a record [dir, base]: base is the file's base name, dir is              *)
(*   "ABS"  the absolute path of <sim_folder>/network                      *)
(*   "VAR"  the literal prefix $NETWORK_DIR                                *)
(*   "SIM"  <sim_folder>/$NETWORK_DIR, a directory that does not exist     *)
(*                                                                         *)
(* The config document is a record: with_networks, nodes and edges are its *)
(* `networks` block, net_other holds the other keys of that block and doc  *)
(* holds every other top-level section.  A mapping of the document is a    *)
(* function from keys to tagged values, Map(f) or Leaf(v).                 *)
(***************************************************************************)
EXTENDS Integers, Sequences, FiniteSets, TLC

VARIABLES pc, networks_active, nodes_dict, edges_dict, config, disk_config,
          written, ret, data_files, fs, sm_new, runs, builder_nodes, file_nodes,
          pool, csv_file

vars == <<pc, networks_active, nodes_dict, edges_dict, config, disk_config,
          written, ret, data_files, fs, sm_new, runs, builder_nodes, file_nodes,
          pool, csv_file>>

\* ------------------------------------------------------------------ bounds
MaxTokens == 2
MaxNets == 2
MaxDisk == 1
MaxEntries == 2
MaxNodes == 2

Tokens == {"a"}

\* ----------------------------------------------------------------- strings
RECURSIVE Join(_)
Join(toks) ==
    IF Len(toks) = 0 THEN <<>>
    ELSE IF Len(toks) = 1 THEN <<toks[1]>>
    ELSE <<toks[1], "_">> \o Join(Tail(toks))

TokenSeqs(n) == UNION {[1..k -> Tokens] : k \in 1..n}

Names == {Join(t) : t \in TokenSeqs(MaxTokens)}

\* str.split('_')
RECURSIVE Split(_)
Split(s) ==
    IF s = <<>> THEN << <<>> >>
    ELSE LET rest == Split(Tail(s)) IN
         IF Head(s) = "_" THEN << <<>> >> \o rest
         ELSE << <<Head(s)>> \o Head(rest) >> \o Tail(rest)

\* ------------------------------------------------------------------- paths
Path(d, b) == [dir |-> d, base |-> b]
NoPath == Path("NONE", <<>>)

basename(path) == path.base

\* os.path.join(self.sim_folder, filename)
abspath(path) ==
    IF path.dir = "VAR" THEN Path("SIM", path.base) ELSE path

\* the two trim_path lambdas of save_network_files
trim_path(path, use_abs_paths) ==
    IF use_abs_paths THEN path ELSE Path("VAR", path.base)

\* ConfigDict.load resolves the manifest variables of the config's paths
ResolvePath(path) ==
    IF path.dir = "VAR" THEN Path("ABS", path.base) ELSE path

FileExists(path) == path.dir = "ABS"

\* ------------------------------------------------- descriptors and builders
NodesDesc(d, name) ==
    [nodes_file |-> Path(d, name \o <<"_", "nodes.h5">>),
     node_types_file |-> Path(d, name \o <<"_", "node", "_", "types.csv">>)]

EdgesDescOfBase(d, prefix) ==
    [edges_file |-> Path(d, prefix \o <<"edges.h5">>),
     edge_types_file |-> Path(d, prefix \o <<"edge", "_", "types.csv">>)]

EdgesDesc(d, src, trg) == EdgesDescOfBase(d, src \o <<"_">> \o trg \o <<"_">>)

ResolveNodes(nd) ==
    [nodes_file |-> ResolvePath(nd.nodes_file),
     node_types_file |-> ResolvePath(nd.node_types_file)]

ResolveEdges(ed) ==
    [edges_file |-> ResolvePath(ed.edges_file),
     edge_types_file |-> ResolvePath(ed.edge_types_file)]

\* NetworkBuilder(net_name): an empty builder
NetworkBuilder(name) == [name |-> name, edges |-> FALSE]

\* the pre-built networks a caller may hand to add_network
Builders == {[name |-> n, edges |-> e] : n \in Names, e \in BOOLEAN}

\* net.save(net_path): the node files, and the edge files when it has edges
NetSave(net) ==
    [nodes_dict |-> NodesDesc("ABS", net.name),
     edge_dicts |-> IF net.edges THEN <<EdgesDesc("ABS", net.name, net.name)>>
                    ELSE <<>>]

NetSaveFiles(net) ==
    LET s == NetSave(net) IN
    <<s.nodes_dict.nodes_file.base, s.nodes_dict.node_types_file.base>>
    \o (IF net.edges
        THEN <<s.edge_dicts[1].edges_file.base, s.edge_dicts[1].edge_types_file.base>>
        ELSE <<>>)

\* ------------------------------------------------------- name derivations
nodes_net_name(nodeset) == Split(basename(nodeset.nodes_file))[1]

\* src, dest = ....split('_')[0:2] raises ValueError on fewer than two tokens
edges_net_pair(edgeset) ==
    LET t == Split(basename(edgeset.edges_file)) IN
    IF Len(t) < 2 THEN [ok |-> FALSE, pair |-> << <<>>, <<>> >>]
    ELSE [ok |-> TRUE, pair |-> <<t[1], t[2]>>]

\* ------------------------------------------------------ ordered dictionaries
\* a dict is a sequence of [key, val] in insertion order
Keys(d) == [i \in 1..Len(d) |-> d[i].key]
Values(d) == [i \in 1..Len(d) |-> d[i].val]
KeySet(d) == {d[i].key : i \in 1..Len(d)}
HasKey(d, k) == k \in KeySet(d)
Get(d, k) == d[CHOOSE i \in 1..Len(d) : d[i].key = k].val

\* d[k] = v
DictSet(d, k, v) ==
    IF HasKey(d, k)
    THEN [i \in 1..Len(d) |-> IF d[i].key = k THEN [key |-> k, val |-> v] ELSE d[i]]
    ELSE Append(d, [key |-> k, val |-> v])

\* self._edges_dict[pair].append(edgeset)
EdgesAppend(d, pair, edgeset) ==
    IF HasKey(d, pair) THEN DictSet(d, pair, Append(Get(d, pair), edgeset))
    ELSE DictSet(d, pair, <<edgeset>>)

RECURSIVE Concat(_)
Concat(ss) == IF ss = <<>> THEN <<>> ELSE Head(ss) \o Concat(Tail(ss))


\* ------------------------------------------------------------ config store
\* a value of the document: a nested mapping or anything else
Leaf(v) == [t |-> "leaf", v |-> v, m |-> <<>>]
Map(f) == [t |-> "map", v |-> <<>>, m |-> f]

\* the sections of the template config other than `networks`
TemplateDoc ==
    ("run" :> Map(("tstop" :> Leaf(<<"t0">>)) @@ ("dt" :> Leaf(<<"dt0">>)))) @@
    ("components" :>
        Map("biophysical_neuron_models_dir" :> Leaf(<<"shared">>))) @@
    ("conditions" :> Map("v_init" :> Leaf(<<"-80">>)))

\* the config document: the `networks` block (absent in a bare template)
NoNetworksConfig ==
    [with_networks |-> FALSE, nodes |-> <<>>, edges |-> <<>>,
     net_other |-> <<>>, doc |-> TemplateDoc]

\* the `networks` block replaced by one that holds nodes and edges only
ConfigUpdateNetworks_replacing(cfg, nodes, edges) ==
    [cfg EXCEPT !.with_networks = TRUE, !.nodes = nodes, !.edges = edges,
                !.net_other = <<>>]

\* self.config.update(networks={'nodes': nodes, 'edges': edges})
ConfigUpdateNetworks(cfg, nodes, edges) ==
    [cfg EXCEPT !.with_networks = TRUE, !.nodes = nodes, !.edges = edges]

\* self.config.save(): the document written to config_path
ConfigSave(cfg) == cfg

\* the config files a manager may be constructed from
\* edge files edges.h5, a_edges.h5, a_b_edges.h5
DiskEdgePrefixes == {<<>>, <<"a", "_">>, <<"a", "_", "b", "_">>}

SeqsUpTo(S, n) == UNION {[1..k -> S] : k \in 0..n}

DiskConfigs ==
    {NoNetworksConfig} \cup
    {[with_networks |-> TRUE, nodes |-> ns, edges |-> es,
      net_other |-> <<>>, doc |-> TemplateDoc] :
        ns \in SeqsUpTo({NodesDesc("VAR", n) : n \in Names}, MaxDisk),
        es \in {<<>>} \cup {<<EdgesDescOfBase("VAR", p)>> : p \in DiskEdgePrefixes}}

\* ------------------------------------------------------------------ results
\* the outcome of the last call: the operation, "ok" or the error raised, the
\* network name and file it resolved, the (source, target) pair it was asked for,
\* whether a warning reached the caller, the flag
\* it was called with, and how many save_network_files calls ended with it
Ret(op, res) == [op |-> op, res |-> res, name |-> <<>>, file |-> NoPath,
                 pair |-> <<>>, warn |-> FALSE, arg |-> FALSE, rep |-> 0]

\* -------------------------------------------------------------- properties
\* SimManager.networks
Networks(act, nd) == Keys(act) \o Keys(nd)

\* SimManager.networks_saved
NetworksSaved(nd) == KeySet(nd)

\* SimManager.default_network
default_network(act, nd) ==
    LET nets == Networks(act, nd) IN
    IF Len(nets) = 0 THEN [res |-> "NoNetworks", name |-> <<>>]
    ELSE IF Len(nets) = 1 THEN [res |-> "ok", name |-> nets[1]]
    ELSE [res |-> "NotImplementedError", name |-> <<>>]

\* SimManager.get_single_net
get_single_net(act, nd) ==
    LET nets == Networks(act, nd) IN
    IF Len(nets) = 1 THEN [res |-> "ok", name |-> nets[1]]
    ELSE [res |-> "MoreThanOneNetwork", name |-> <<>>]

\* ------------------------------------------------------------ load_networks
RECURSIVE ImportLoop(_, _)
ImportLoop(nodes_raw, act) ==
    IF nodes_raw = <<>> THEN act
    ELSE LET name == nodes_net_name(Head(nodes_raw)) IN
         ImportLoop(Tail(nodes_raw),
                    DictSet(act, name, NetworkBuilder(name)))

\* if import_nodes: ... self.new_network(name) ... for every nodeset
ImportedBuilders_unconditional(nodes_raw, import_nodes) == ImportLoop(nodes_raw, <<>>)

ImportedBuilders(nodes_raw, import_nodes) ==
    IF import_nodes THEN ImportLoop(nodes_raw, <<>>) ELSE <<>>

RECURSIVE NodesLoop(_, _)
NodesLoop(nodes_raw, nd) ==
    IF nodes_raw = <<>> THEN nd
    ELSE NodesLoop(Tail(nodes_raw),
                   DictSet(nd, nodes_net_name(Head(nodes_raw)), Head(nodes_raw)))

RECURSIVE EdgesLoop(_, _)
EdgesLoop(edges_raw, ed) ==
    IF edges_raw = <<>> THEN [ok |-> TRUE, ed |-> ed]
    ELSE LET p == edges_net_pair(Head(edges_raw)) IN
         IF ~p.ok THEN [ok |-> FALSE, ed |-> ed]
         ELSE EdgesLoop(Tail(edges_raw), EdgesAppend(ed, p.pair, Head(edges_raw)))

\* the manager state built by __init__ / load_networks from a config file
load_networks(cfg, import_nodes) ==
    IF ~cfg.with_networks
    THEN [ok |-> TRUE, active |-> <<>>, nodes |-> <<>>, edges |-> <<>>]
    ELSE LET nodes_raw == [i \in 1..Len(cfg.nodes) |-> ResolveNodes(cfg.nodes[i])]
             edges_raw == [i \in 1..Len(cfg.edges) |-> ResolveEdges(cfg.edges[i])]
             act == ImportedBuilders(nodes_raw, import_nodes)
             e == EdgesLoop(edges_raw, <<>>)
         IN [ok |-> e.ok, active |-> act, nodes |-> NodesLoop(nodes_raw, <<>>),
             edges |-> e.ed]

\* ------------------------------------------------------ save_network_files
NotYetSaved_always(name, nd) == TRUE

NotYetSaved_never(name, nd) == FALSE

\* if name not in self.networks_saved
NotYetSaved(name, nd) == name \notin NetworksSaved(nd)

RECURSIVE TrimEdges(_, _)
TrimEdges(edge_dicts, use_abs_paths) ==
    IF edge_dicts = <<>> THEN <<>>
    ELSE << [edges_file |-> trim_path(Head(edge_dicts).edges_file, use_abs_paths),
             edge_types_file |-> trim_path(Head(edge_dicts).edge_types_file, use_abs_paths)] >>
         \o TrimEdges(Tail(edge_dicts), use_abs_paths)

RECURSIVE IndexEdges(_, _)
IndexEdges(edge_dicts, ed) ==
    IF edge_dicts = <<>> THEN ed
    ELSE IndexEdges(Tail(edge_dicts),
                    EdgesAppend(ed, edges_net_pair(Head(edge_dicts)).pair, Head(edge_dicts)))

RECURSIVE SaveLoop(_, _, _, _, _)
SaveLoop(act, nd, ed, wr, use_abs_paths) ==
    IF act = <<>> THEN [nodes |-> nd, edges |-> ed, written |-> wr]
    ELSE LET name == Head(act).key
             net == Head(act).val
         IN IF ~NotYetSaved(name, nd)
            THEN SaveLoop(Tail(act), nd, ed, wr, use_abs_paths)
            ELSE LET s == NetSave(net)
                     nodes_d == [nodes_file |-> trim_path(s.nodes_dict.nodes_file, use_abs_paths),
                                 node_types_file |-> trim_path(s.nodes_dict.node_types_file, use_abs_paths)]
                 IN SaveLoop(Tail(act), DictSet(nd, name, nodes_d),
                             IndexEdges(TrimEdges(s.edge_dicts, use_abs_paths), ed),
                             wr \o NetSaveFiles(net), use_abs_paths)

\* -------------------------------------------------------------- file system
\* a file or folder that does not exist
NoFile == [origin |-> "none", paths |-> "none", merged |-> FALSE]
NoFolder == [exists |-> FALSE, config |-> NoFile, network |-> "none", output |-> FALSE]

\* no manager: what a call returns when it returns None or raises
NoManager == [folder |-> "none", config |-> NoFile]

\* the external runner has not been invoked
NoRun == [op |-> "none", path |-> <<>>, ncores |-> 0, doc |-> <<>>]

\* the folders are not looked at
NoFs == [src |-> NoFolder, tgt |-> NoFolder]

\* no batch of the gene-correlation script is running, no csv file is edited
NoPool == [at |-> "none", genes |-> <<>>, low |-> {}, chunks |-> <<>>, results |-> <<>>,
           out |-> <<>>, saved |-> FALSE, file |-> <<>>]

NoCsv == [header |-> <<>>, rows |-> <<>>]

\* ----------------------------------------------------------------- actions
Init ==
    /\ pc = "none"
    /\ networks_active = <<>>
    /\ nodes_dict = <<>>
    /\ edges_dict = <<>>
    /\ config = NoNetworksConfig
    /\ disk_config \in DiskConfigs
    /\ written = <<>>
    /\ ret = Ret("none", "ok")
    /\ data_files = {}
    /\ fs = NoFs
    /\ sm_new = NoManager
    /\ runs = NoRun
    /\ builder_nodes = <<>>
    /\ file_nodes = <<>>
    /\ pool = NoPool
    /\ csv_file = NoCsv

\* SimManager(config_path, import_nodes=...)
Construct(import_nodes) ==
    /\ pc = "none"
    /\ LET m == load_networks(disk_config, import_nodes) IN
       IF m.ok
       THEN /\ pc' = "ready"
            /\ networks_active' = m.active
            /\ nodes_dict' = m.nodes
            /\ edges_dict' = m.edges
            /\ config' = disk_config
            /\ ret' = [Ret("init", "ok") EXCEPT !.arg = import_nodes]
       ELSE /\ pc' = "failed"
            /\ ret' = [Ret("init", "ValueError") EXCEPT !.arg = import_nodes]
            /\ UNCHANGED <<networks_active, nodes_dict, edges_dict, config>>
    /\ UNCHANGED <<disk_config, written, data_files, fs, sm_new, runs,
                   builder_nodes, file_nodes, pool, csv_file>>

\* the model registers at most MaxNets distinct names
RoomFor(names) ==
    Cardinality(KeySet(networks_active) \cup KeySet(nodes_dict) \cup names) <= MaxNets

\* add_network(network)
add_network(act, network) == DictSet(act, network.name, network)

NewNetwork(net_name) ==
    /\ pc = "ready"
    /\ RoomFor({net_name})
    /\ networks_active' = add_network(networks_active, NetworkBuilder(net_name))
    /\ ret' = Ret("new_network", "ok")
    /\ UNCHANGED <<pc, nodes_dict, edges_dict, config, disk_config, written, data_files, fs, sm_new, runs,
                   builder_nodes, file_nodes, pool, csv_file>>

AddNetwork(network) ==
    /\ pc = "ready"
    /\ RoomFor({network.name})
    /\ networks_active' = add_network(networks_active, network)
    /\ ret' = Ret("none", "ok")
    /\ UNCHANGED <<pc, nodes_dict, edges_dict, config, disk_config, written, data_files, fs, sm_new, runs,
                   builder_nodes, file_nodes, pool, csv_file>>

\* add_networks([n1, n2])
AddNetworks(n1, n2) ==
    /\ pc = "ready"
    /\ n1.name # n2.name
    /\ RoomFor({n1.name, n2.name})
    /\ networks_active' = add_network(add_network(networks_active, n1), n2)
    /\ ret' = Ret("none", "ok")
    /\ UNCHANGED <<pc, nodes_dict, edges_dict, config, disk_config, written, data_files, fs, sm_new, runs,
                   builder_nodes, file_nodes, pool, csv_file>>

SaveNetworkFiles(use_abs_paths) ==
    /\ pc = "ready"
    /\ LET s == SaveLoop(networks_active, nodes_dict, edges_dict, written, use_abs_paths)
           cfg == ConfigUpdateNetworks(config, Values(s.nodes), Concat(Values(s.edges)))
       IN /\ nodes_dict' = s.nodes
          /\ edges_dict' = s.edges
          /\ written' = s.written
          /\ config' = cfg
          /\ disk_config' = ConfigSave(cfg)
    /\ ret' = [Ret("save_network_files", "ok") EXCEPT
                 !.rep = IF ret.op = "save_network_files" THEN 2 ELSE 1]
    /\ UNCHANGED <<pc, networks_active, data_files, fs, sm_new, runs,
                   builder_nodes, file_nodes, pool, csv_file>>

\* ------------------------------------------------------------------ queries
\* a read-only call hands its result to the caller, who then goes on
DefaultNetwork ==
    /\ pc = "ready"
    /\ pc' = "returned"
    /\ LET r == default_network(networks_active, nodes_dict) IN
       ret' = [Ret("default_network", r.res) EXCEPT !.name = r.name]
    /\ UNCHANGED <<networks_active, nodes_dict, edges_dict, config, disk_config, written, data_files, fs, sm_new, runs,
                   builder_nodes, file_nodes, pool, csv_file>>

\* nodes_file(net=None) and node_types_file(net=None): the path looked up
LookupDefault(act, nd, field) ==
    LET r == get_single_net(act, nd) IN
    IF r.res # "ok" THEN [res |-> r.res, name |-> <<>>, file |-> NoPath]
    ELSE IF ~HasKey(nd, r.name) THEN [res |-> "KeyError", name |-> r.name, file |-> NoPath]
    ELSE [res |-> "ok", name |-> r.name, file |-> abspath(Get(nd, r.name)[field])]

NodesFileDefault ==
    /\ pc = "ready"
    /\ pc' = "returned"
    /\ LET r == LookupDefault(networks_active, nodes_dict, "nodes_file") IN
       ret' = [Ret("nodes_file", r.res) EXCEPT !.name = r.name, !.file = r.file]
    /\ UNCHANGED <<networks_active, nodes_dict, edges_dict, config, disk_config, written, data_files, fs, sm_new, runs,
                   builder_nodes, file_nodes, pool, csv_file>>

NodeTypesFileDefault ==
    /\ pc = "ready"
    /\ pc' = "returned"
    /\ LET r == LookupDefault(networks_active, nodes_dict, "node_types_file") IN
       ret' = [Ret("node_types_file", r.res) EXCEPT !.name = r.name, !.file = r.file]
    /\ UNCHANGED <<networks_active, nodes_dict, edges_dict, config, disk_config, written, data_files, fs, sm_new, runs,
                   builder_nodes, file_nodes, pool, csv_file>>

\* get_dynamics_param_vals: pd.read_csv(self.node_types_file(), ...)
GetDynamicsParamVals ==
    /\ pc = "ready"
    /\ pc' = "returned"
    /\ LET r == LookupDefault(networks_active, nodes_dict, "node_types_file") IN
       ret' = [Ret("get_dynamics_param_vals",
                   IF r.res = "ok" /\ ~FileExists(r.file) THEN "IOError" ELSE r.res)
               EXCEPT !.name = r.name, !.file = r.file]
    /\ UNCHANGED <<networks_active, nodes_dict, edges_dict, config, disk_config, written, data_files, fs, sm_new, runs,
                   builder_nodes, file_nodes, pool, csv_file>>

\* Warning("..."): builds an exception object and drops it; nothing is emitted
Warning(msg) == FALSE

\* update_csv(csv_path, props): rewrites the file, or ends in the error of open()
update_csv(csv_path) ==
    [res |-> IF FileExists(csv_path) THEN "ok" ELSE "IOError", file |-> csv_path]

update_edge_type_props(ed, src_name, dest_name) ==
    IF ~HasKey(ed, <<src_name, dest_name>>)
    THEN [res |-> "NoEdges", file |-> NoPath, warn |-> FALSE]
    ELSE LET edges == Get(ed, <<src_name, dest_name>>)
             w == IF Len(edges) > 1
                  THEN Warning("Multiple edge files exist for given pair of networks.")
                  ELSE FALSE
             u == update_csv(abspath(edges[1].edge_types_file))
         IN [res |-> u.res, file |-> u.file, warn |-> w]

\* the pairs a caller asks for: those of the index and one that no file gives
AskedPairs == KeySet(edges_dict) \cup {<< <<"b">>, <<"a">> >>}

\* ret.file is the edge-types file the call handed to update_csv
UpdateEdgeTypeProps(src_name, dest_name) ==
    /\ pc = "ready"
    /\ pc' = "returned"
    /\ LET r == update_edge_type_props(edges_dict, src_name, dest_name) IN
       ret' = [Ret("update_edge_type_props", r.res) EXCEPT
                 !.pair = <<src_name, dest_name>>, !.file = r.file, !.warn = r.warn]
    /\ UNCHANGED <<networks_active, nodes_dict, edges_dict, config, disk_config, written, data_files, fs, sm_new, runs,
                   builder_nodes, file_nodes, pool, csv_file>>

Return ==
    /\ pc = "returned"
    /\ pc' = "ready"
    /\ ret' = Ret("none", "ok")
    /\ UNCHANGED <<networks_active, nodes_dict, edges_dict, config, disk_config, written, data_files, fs, sm_new, runs,
                   builder_nodes, file_nodes, pool, csv_file>>

Next ==
    \/ \E i \in BOOLEAN : Construct(i)
    \/ \E n \in Names : NewNetwork(n)
    \/ \E b \in Builders : AddNetwork(b)
    \/ \E b1, b2 \in Builders : AddNetworks(b1, b2)
    \/ \E a \in BOOLEAN : SaveNetworkFiles(a)
    \/ DefaultNetwork
    \/ NodesFileDefault
    \/ NodeTypesFileDefault
    \/ GetDynamicsParamVals
    \/ \E p \in AskedPairs : UpdateEdgeTypeProps(p[1], p[2])
    \/ Return

Spec == Init /\ [][Next]_vars

\* ---------------------------------------------------- config store: merging
\* ConfigBuilder.update_nested: for each key of data, merge recursively when the
\* existing value and the new one are nested mappings, otherwise overwrite
\* dict.update: every key of data replaces the existing value
update_nested_shallow(f, data) ==
    [k \in DOMAIN f \cup DOMAIN data |-> IF k \in DOMAIN data THEN data[k] ELSE f[k]]

\* a merge that keeps only the keys of data
update_nested_forgetful(f, data) == data

RECURSIVE update_nested(_, _)
update_nested(f, data) ==
    [k \in DOMAIN f \cup DOMAIN data |->
        IF k \notin DOMAIN data THEN f[k]
        ELSE IF k \in DOMAIN f /\ f[k].t = "map" /\ data[k].t = "map"
             THEN Map(update_nested(f[k].m, data[k].m))
             ELSE data[k]]

\* self.config.update_nested(**data)
ConfigUpdateNested(cfg, data) == [cfg EXCEPT !.doc = update_nested(@, data)]

\* ConfigBuilder.from_json: the document read from config_path
ConfigFromJson(file) == file

\* the entries of a section of the document, none when the section is absent
Section(cfg, s) ==
    IF s \in DOMAIN cfg.doc /\ cfg.doc[s].t = "map" THEN cfg.doc[s].m ELSE <<>>

EntryCount(cfg) ==
    Cardinality(DOMAIN Section(cfg, "inputs")) + Cardinality(DOMAIN Section(cfg, "reports"))

\* the model keeps at most MaxEntries inputs and reports in the document
RoomForEntries(cfg) == EntryCount(cfg) <= MaxEntries

\* ----------------------------------------------------- input/report linker
None == <<"None">>

\* os.path.join(self.sim_folder, filename), for the name of a data file
abspath_name(filename) == <<"sim_folder/">> \o filename

\* os.path.splitext(input_file)[1][1:]
splitext_ext(input_file) ==
    IF input_file = <<>> THEN <<>>
    ELSE LET last == input_file[Len(input_file)] IN
         IF last = ".csv" THEN <<"csv">>
         ELSE IF last = ".h5" THEN <<"h5">> ELSE <<>>

\* the single-entry mapping add_current_clamp_complex merges, with its file
current_clamp_complex_inputs(net_name, use_abs_paths, name) ==
    LET nm == IF name = <<>> THEN net_name \o <<"_", "current">> ELSE name
        filename == nm \o <<".csv">>
        filepath == abspath_name(filename)
    IN [name |-> nm, file |-> filename,
        data |-> nm :> Map(
            ("input_type" :> Leaf(<<"current", "_", "clamp">>)) @@
            ("module" :> Leaf(<<"IClamp">>)) @@
            ("node_set" :> Leaf(net_name)) @@
            ("input_file" :> Leaf(IF use_abs_paths THEN filepath ELSE filename)))]

\* the single-entry mapping add_current_clamp_input merges
current_clamp_inputs(iclamp_name) ==
    [name |-> iclamp_name, file |-> <<>>,
     data |-> iclamp_name :> Map(
        ("input_type" :> Leaf(<<"current", "_", "clamp">>)) @@
        ("module" :> Leaf(<<"IClamp">>)) @@
        ("node_set" :> Leaf(<<"all">>)) @@
        ("amp" :> Leaf(<<"amp">>)) @@
        ("delay" :> Leaf(<<"delay">>)) @@
        ("duration" :> Leaf(<<"duration">>)))]

\* the single-entry mapping link_spike_input_file merges
spike_inputs(input_file, net_name, trial, name) ==
    LET nm == IF name = <<>> THEN net_name \o <<"_", "spikes">> ELSE name IN
    [name |-> nm, file |-> <<>>,
     data |-> nm :> Map(
        ("input_type" :> Leaf(<<"spikes">>)) @@
        ("module" :> Leaf(splitext_ext(input_file))) @@
        ("input_file" :> Leaf(input_file)) @@
        ("node_set" :> Leaf(net_name)) @@
        ("trial" :> Leaf(trial)))]

\* the single-entry mapping add_ecp_report merges, with the electrode file it
\* writes when none is given
ecp_reports(electrode_file, save_contributions) ==
    LET ef == IF electrode_file = <<>> THEN <<"electrode", ".csv">> ELSE electrode_file IN
    [name |-> <<"ecp", "_", "report">>,
     file |-> IF electrode_file = <<>> THEN ef ELSE <<>>,
     data |-> <<"ecp", "_", "report">> :> Map(
        ("cells" :> Leaf(<<"all">>)) @@
        ("variable_name" :> Leaf(<<"v">>)) @@
        ("module" :> Leaf(<<"extracellular">>)) @@
        ("electrode_positions" :> Leaf(ef)) @@
        ("file_name" :> Leaf(<<"ecp", ".h5">>)) @@
        ("electrode_channels" :> Leaf(<<"all">>)) @@
        ("contributions_dir" :>
            Leaf(IF save_contributions THEN <<"ecp", "_", "contributions">> ELSE None)))]

\* the single-entry mapping add_membrane_report merges; kwargs are added to
\* the entry with reports[name].update(**kwargs)
membrane_reports(name, kwargs) ==
    [name |-> name, file |-> <<>>,
     data |-> name :> Map(kwargs @@
        ("module" :> Leaf(<<"membrane", "_", "report">>)) @@
        ("variable_name" :> Leaf(<<"v">>)) @@
        ("cells" :> Leaf(<<"all">>)) @@
        ("file_name" :> Leaf(name \o <<".h5">>)) @@
        ("sections" :> Leaf(<<"soma">>)))]

\* self.config.update(reports=reports): the section is replaced
MergeEntry_replacing(cfg, section, entry) ==
    [cfg EXCEPT !.doc = update_nested_shallow(@, section :> Map(entry.data))]

\* self.config.update_nested(inputs=inputs) and update_nested(reports=reports)
MergeEntry(cfg, section, entry) == ConfigUpdateNested(cfg, section :> Map(entry.data))

\* the files a call writes into the sim folder before it links them
WriteDataFile(files, file) == IF file = <<>> THEN files ELSE files \cup {file}

\* update_nested, then self.config.save()
LinkAndSave(op, section, entry) ==
    LET cfg == MergeEntry(config, section, entry) IN
    /\ RoomForEntries(cfg)
    /\ config' = cfg
    /\ disk_config' = ConfigSave(cfg)
    /\ data_files' = WriteDataFile(data_files, entry.file)
    /\ ret' = Ret("none", "ok")

\* self._networks_active[net_name] of a network that is not active
RaiseKeyError(op) ==
    /\ ret' = Ret("none", "KeyError")
    /\ UNCHANGED <<config, disk_config, data_files, file_nodes>>

\* what add_nodes(N=...) has put into the builder of a network
NodeCount(net_name) ==
    IF net_name \in DOMAIN builder_nodes THEN builder_nodes[net_name] ELSE 0

\* the node ids of every network, whatever its size
node_ids_fixed(count) == 0..(MaxNodes - 1)

\* [node.node_id for node in net.nodes_iter()] and net.nodes(): the builder
\* numbers the nodes of a network from 0
node_ids(count) == 0..(count - 1)

\* the data file written for the nodes it is handed
WriteNodeFile(files, file, ids) == (file :> ids) @@ files

\* the pointer is merged and saved first, the data file is written afterwards
link_then_write(cfg, disk, files, nodes, entry, ids, write_ok) ==
    LET merged == MergeEntry(cfg, "inputs", entry) IN
    IF write_ok
    THEN [config |-> merged, disk |-> ConfigSave(merged),
          files |-> WriteDataFile(files, entry.file),
          nodes |-> WriteNodeFile(nodes, entry.file, ids), res |-> "ok"]
    ELSE [config |-> merged, disk |-> ConfigSave(merged),
          files |-> files, nodes |-> nodes, res |-> "IOError"]

\* the data file is written for the nodes of the network; a write that raises
\* ends the method there; otherwise update_nested(inputs=...) and save() follow
write_then_link(cfg, disk, files, nodes, entry, ids, write_ok) ==
    IF write_ok
    THEN LET merged == MergeEntry(cfg, "inputs", entry) IN
         [config |-> merged, disk |-> ConfigSave(merged),
          files |-> WriteDataFile(files, entry.file),
          nodes |-> WriteNodeFile(nodes, entry.file, ids), res |-> "ok"]
    ELSE [config |-> cfg, disk |-> disk, files |-> files, nodes |-> nodes,
          res |-> "IOError"]

\* a file-writing input method called for an active network; write_ok tells
\* whether the write of the data file succeeds or raises
WriteLinkAndSave(op, net_name, entry, write_ok) ==
    LET r == write_then_link(config, disk_config, data_files, file_nodes, entry,
                             node_ids(NodeCount(net_name)), write_ok)
    IN /\ RoomForEntries(MergeEntry(config, "inputs", entry))
       /\ config' = r.config
       /\ disk_config' = r.disk
       /\ data_files' = r.files
       /\ file_nodes' = r.nodes
       /\ ret' = Ret("none", r.res)

AddCurrentClampComplex(net_name, use_abs_paths, name, write_ok) ==
    /\ pc = "ready"
    /\ IF HasKey(networks_active, net_name)
       THEN WriteLinkAndSave("add_current_clamp_complex", net_name,
                             current_clamp_complex_inputs(net_name, use_abs_paths, name),
                             write_ok)
       ELSE RaiseKeyError("add_current_clamp_complex")
    /\ UNCHANGED <<pc, networks_active, nodes_dict, edges_dict, written, fs, sm_new, runs,
                   builder_nodes, pool, csv_file>>

AddCurrentClampInput(iclamp_name) ==
    /\ pc = "ready"
    /\ LinkAndSave("add_current_clamp_input", "inputs", current_clamp_inputs(iclamp_name))
    /\ UNCHANGED <<pc, networks_active, nodes_dict, edges_dict, written, fs, sm_new, runs,
                   builder_nodes, file_nodes, pool, csv_file>>

\* the spike file is written, then link_spike_input_file(spike_file_name, net_name)
AddSpikeInput(op, net_name, spike_file_name, use_abs_paths, write_ok) ==
    /\ pc = "ready"
    /\ IF HasKey(networks_active, net_name)
       THEN LET linked == IF use_abs_paths THEN abspath_name(spike_file_name)
                          ELSE spike_file_name
                entry == spike_inputs(linked, net_name, None, <<>>)
            IN WriteLinkAndSave(op, net_name, [entry EXCEPT !.file = spike_file_name],
                                write_ok)
       ELSE RaiseKeyError(op)
    /\ UNCHANGED <<pc, networks_active, nodes_dict, edges_dict, written, fs, sm_new, runs,
                   builder_nodes, pool, csv_file>>

AddSpikeInputVector(net_name, use_abs_paths, write_ok) ==
    AddSpikeInput("add_spike_input_vector", net_name, <<"spike", "_", "input", ".csv">>,
                  use_abs_paths, write_ok)

AddSpikeInputPoisson(net_name, use_abs_paths, write_ok) ==
    AddSpikeInput("add_spike_input_poisson", net_name, <<"spike", "_", "input", ".h5">>,
                  use_abs_paths, write_ok)

LinkSpikeInputFile(input_file, net_name, name) ==
    /\ pc = "ready"
    /\ LinkAndSave("link_spike_input_file", "inputs",
                   spike_inputs(input_file, net_name, None, name))
    /\ UNCHANGED <<pc, networks_active, nodes_dict, edges_dict, written, fs, sm_new, runs,
                   builder_nodes, file_nodes, pool, csv_file>>

\* add_ecp_report ends with update_nested(reports=reports)
AddEcpReport(electrode_file, save_contributions) ==
    /\ pc = "ready"
    /\ LET entry == ecp_reports(electrode_file, save_contributions)
           cfg == MergeEntry(config, "reports", entry)
       IN /\ RoomForEntries(cfg)
          /\ config' = cfg
          /\ data_files' = WriteDataFile(data_files, entry.file)
          /\ ret' = Ret("none", "ok")
    /\ UNCHANGED <<pc, networks_active, nodes_dict, edges_dict, disk_config, written,
                   fs, sm_new, runs,
                   builder_nodes, file_nodes, pool, csv_file>>

AddMembraneReport(name, kwargs) ==
    /\ pc = "ready"
    /\ LinkAndSave("add_membrane_report", "reports", membrane_reports(name, kwargs))
    /\ UNCHANGED <<pc, networks_active, nodes_dict, edges_dict, written, fs, sm_new, runs,
                   builder_nodes, file_nodes, pool, csv_file>>

\* ------------------------------------------------------------ run settings
\* self.config['run'] = {key: value}
set_run_replacing(cfg, key, value) ==
    [cfg EXCEPT !.doc = ("run" :> Map(key :> Leaf(value))) @@ @]

\* self.config['run'][key] = value
set_run(cfg, key, value) ==
    [cfg EXCEPT !.doc = ("run" :> Map((key :> Leaf(value)) @@ cfg.doc["run"].m)) @@ @]

\* the sim_time and sim_timestep setters: the assignment, then self.config.save()
SetRun(op, key, value) ==
    /\ pc = "ready"
    /\ IF "run" \in DOMAIN config.doc
       THEN /\ config' = set_run(config, key, value)
            /\ disk_config' = ConfigSave(config')
            /\ ret' = Ret("none", "ok")
       ELSE /\ ret' = Ret("none", "KeyError")
            /\ UNCHANGED <<config, disk_config>>
    /\ UNCHANGED <<pc, networks_active, nodes_dict, edges_dict, written, data_files,
                   fs, sm_new, runs,
                   builder_nodes, file_nodes, pool, csv_file>>

SetSimTime(time) == SetRun("sim_time", "tstop", time)

SetSimTimestep(dt) == SetRun("sim_timestep", "dt", dt)

\* sm.config.update_nested(components={...}) and update_nested(config_dict)
CallerPayloads ==
    {"components" :> Map("biophysical_neuron_models_dir" :> Leaf(<<"optim">>))}

UpdateNested(data) ==
    /\ pc = "ready"
    /\ config' = ConfigUpdateNested(config, data)
    /\ ret' = Ret("none", "ok")
    /\ UNCHANGED <<pc, networks_active, nodes_dict, edges_dict, disk_config, written,
                   data_files, fs, sm_new, runs,
                   builder_nodes, file_nodes, pool, csv_file>>

\* sm.config.save()
Save ==
    /\ pc = "ready"
    /\ disk_config' = ConfigSave(config)
    /\ ret' = Ret("none", "ok")
    /\ UNCHANGED <<pc, networks_active, nodes_dict, edges_dict, config, written,
                   data_files, fs, sm_new, runs,
                   builder_nodes, file_nodes, pool, csv_file>>

\* ------------------------------------------- the manager of a config document
\* the config files of this specification: a template whose `networks` block
\* holds a key besides nodes and edges and that has a top-level key the
\* manager does not know, and a document with no `run` and no `networks`
RichDoc == TemplateDoc @@ ("x_custom" :> Leaf(<<"kept">>))

BareDoc == "components" :> Map("biophysical_neuron_models_dir" :> Leaf(<<"shared">>))

RichConfig ==
    [NoNetworksConfig EXCEPT !.doc = RichDoc, !.with_networks = TRUE,
                             !.net_other = "gap_juncs" :> Leaf(<<"kept">>)]

CfgDiskConfigs == {RichConfig, [NoNetworksConfig EXCEPT !.doc = BareDoc]}

\* the network names and entry names the calls are made with
CfgNets == {<<"a">>}
EntryNames == {<<>>, <<"x">>}

InitCfg ==
    /\ pc = "ready"
    /\ networks_active = <<>>
    /\ nodes_dict = <<>>
    /\ edges_dict = <<>>
    /\ disk_config \in CfgDiskConfigs
    /\ config = ConfigFromJson(disk_config)
    /\ written = <<>>
    /\ ret = Ret("none", "ok")
    /\ data_files = {}
    /\ fs = NoFs
    /\ sm_new = NoManager
    /\ runs = NoRun
    /\ builder_nodes = <<>>
    /\ file_nodes = <<>>
    /\ pool = NoPool
    /\ csv_file = NoCsv

NextCfg ==
    \/ \E n \in CfgNets : NewNetwork(n)
    \/ \E n \in CfgNets, a \in BOOLEAN : AddCurrentClampComplex(n, a, <<>>, TRUE)
    \/ \E name \in {<<"IClamp">>, <<"x">>} : AddCurrentClampInput(name)
    \/ \E n \in CfgNets, a \in BOOLEAN : AddSpikeInputVector(n, a, TRUE)
    \/ \E n \in CfgNets, a \in BOOLEAN : AddSpikeInputPoisson(n, a, TRUE)
    \/ \E n \in CfgNets, name \in EntryNames : LinkSpikeInputFile(<<"ext", ".h5">>, n, name)
    \/ \E f \in {<<>>, <<"probe", ".csv">>}, c \in BOOLEAN : AddEcpReport(f, c)
    \/ \E name \in {<<"membrane", "_", "report">>, <<"x">>},
          kwargs \in {<<>>, "extra" :> Leaf(<<"kw">>)} : AddMembraneReport(name, kwargs)

SpecCfg == InitCfg /\ [][NextCfg]_vars

\* the config store under a manager that builds and saves networks, sets the
\* run times, merges what its callers hand it and adds the default report
NextStore ==
    \/ \E n \in Names : NewNetwork(n)
    \/ \E a \in BOOLEAN : SaveNetworkFiles(a)
    \/ SetSimTime(<<"t1">>)
    \/ SetSimTimestep(<<"dt1">>)
    \/ \E data \in CallerPayloads : UpdateNested(data)
    \/ AddMembraneReport(<<"membrane", "_", "report">>, <<>>)
    \/ Save

SpecStore == InitCfg /\ [][NextStore]_vars

\* ------------------------------------------------ sim folders and templates
\* A folder is a record: whether it exists, its config file, its network
\* directory ("none", or the node type tables as "orig"inally written or
\* "edited") and whether it has an output directory with run outputs.  A config
\* file is known by whose document it holds, by whether a caller's config_dict
\* was merged into it, and by where it says the network files are: "none" (no
\* networks block), "rel" (under $NETWORK_DIR of its own folder) or the folder
\* whose network directory it names by absolute path.
Folders == {"src", "tgt"}

ConfigFile(origin, paths) == [origin |-> origin, paths |-> paths, merged |-> FALSE]

TemplateFile == ConfigFile("template", "none")

EmptyFolder == [exists |-> TRUE, config |-> NoFile, network |-> "none", output |-> FALSE]

\* the manager's own folder: self.sim_folder
sim_folder == "src"

\* clear_output leaving the output directory in place
clear_output_skipped(folder) == folder

\* shutil.rmtree(os.path.join(self.sim_folder, "output"), ignore_errors=True)
clear_output(folder) == [folder EXCEPT !.output = FALSE]

\* SimManager(config_path): ConfigClass.from_json fails when the file is absent
SimManagerAt(files, f) ==
    IF files[f].config = NoFile
    THEN [fs |-> files, res |-> "NotFound", mgr |-> NoManager]
    ELSE [fs |-> files, res |-> "ok", mgr |-> [folder |-> f, config |-> files[f].config]]

\* the template is copied even when overwrite is not asked for
from_template_copies_always(overwrite, isfile) == TRUE

\* overwrite or not os.path.isfile(config_path)
from_template_copies(overwrite, isfile) == overwrite \/ ~isfile

\* ConfigClass.load_template(config_template, config_path, ...)
load_template(folder) == [folder EXCEPT !.config = TemplateFile]

from_template(files, f, overwrite) ==
    LET made == IF files[f].exists THEN files ELSE [files EXCEPT ![f] = EmptyFolder]
        copied == IF from_template_copies(overwrite, made[f].config # NoFile)
                  THEN [made EXCEPT ![f] = load_template(@)]
                  ELSE made
        sm == SimManagerAt(copied, f)
    IN IF sm.res = "ok" /\ overwrite
       THEN [sm EXCEPT !.fs = [copied EXCEPT ![f] = clear_output(@)]]
       ELSE sm

\* save_complete returning to its caller
save_complete_returns(folder_path) == "ok"

\* save_complete: raise NotImplementedError()
save_complete(folder_path) == "NotImplementedError"

\* the end of save_copy: sm = SimManager(new_config); sm.clear_output(); return sm
CopyManager(files, target) ==
    LET sm == SimManagerAt(files, target) IN
    IF sm.res = "ok"
    THEN [sm EXCEPT !.fs = [files EXCEPT ![target] = clear_output(@)]]
    ELSE sm

Raised(files, res) == [fs |-> files, res |-> res, mgr |-> NoManager]

save_copy(files, target, overwrite, level) ==
    IF files[target].exists /\ ~overwrite
    THEN [fs |-> files, res |-> "ok", mgr |-> NoManager]
    ELSE LET cleared == [files EXCEPT ![target] = NoFolder] IN
         CASE level = "folder" ->
                IF ~cleared[sim_folder].exists THEN Raised(cleared, "IOError")
                ELSE CopyManager([cleared EXCEPT ![target] = cleared[sim_folder]], target)
           [] level = "network" ->
                LET made == [cleared EXCEPT ![target] = EmptyFolder] IN
                IF made[sim_folder].config = NoFile THEN Raised(made, "IOError")
                ELSE LET withcfg == [made EXCEPT ![target].config = made[sim_folder].config] IN
                     IF withcfg[sim_folder].network = "none" THEN Raised(withcfg, "IOError")
                     ELSE CopyManager([withcfg EXCEPT ![target].network =
                                                          withcfg[sim_folder].network],
                                      target)
           [] level = "complete" ->
                IF save_complete(target) = "ok" THEN CopyManager(cleared, target)
                ELSE Raised(cleared, save_complete(target))
           [] OTHER -> CopyManager(cleared, target)

\* sm_mod.update_node_type_props("batch", node_props) on the manager of a copy
update_node_type_props(files, mgr) ==
    IF mgr.config.paths = "none" THEN [fs |-> files, res |-> "AssertionError"]
    ELSE LET where == IF mgr.config.paths = "rel" THEN mgr.folder ELSE mgr.config.paths IN
         IF files[where].network = "none" THEN [fs |-> files, res |-> "IOError"]
         ELSE [fs |-> [files EXCEPT ![where].network = "edited"], res |-> "ok"]

\* sm_mod.config.update_nested(config_dict); sm_mod.config.save()
merge_config_dict(files, mgr) == [files EXCEPT ![mgr.folder].config.merged = TRUE]

\* copy_sim_for_new_cell and copy_sim_for_hof: save_copy, and when it returns a
\* manager the node type table of the copy is edited
copy_sim(files, target, overwrite, level, config_dict) ==
    LET c == save_copy(files, target, overwrite, level) IN
    IF c.res # "ok" \/ c.mgr = NoManager THEN c
    ELSE LET u == update_node_type_props(c.fs, c.mgr) IN
         IF u.res # "ok" THEN Raised(u.fs, u.res)
         ELSE [fs |-> IF config_dict THEN merge_config_dict(u.fs, c.mgr) ELSE u.fs,
               res |-> "ok", mgr |-> NoManager]

Levels == {"folder", "network", "complete", "other"}

\* SimManager(os.path.join(f, "config.json"))
Open(f) ==
    /\ pc = "ready"
    /\ LET sm == SimManagerAt(fs, f) IN
       /\ sm_new' = sm.mgr
       /\ ret' = Ret("init", sm.res)
    /\ UNCHANGED <<pc, networks_active, nodes_dict, edges_dict, config, disk_config,
                   written, data_files, fs, runs,
                   builder_nodes, file_nodes, pool, csv_file>>

\* SimManager.from_template(config_template, sim_folder=f, overwrite=overwrite)
FromTemplate(f, overwrite) ==
    /\ pc = "ready"
    /\ LET sm == from_template(fs, f, overwrite) IN
       /\ fs' = sm.fs
       /\ sm_new' = sm.mgr
       /\ ret' = [Ret("from_template", sm.res) EXCEPT
                    !.arg = overwrite,
                    !.warn = ~from_template_copies(overwrite, fs[f].config # NoFile)
                             /\ Warning("Config file already exists")]
    /\ UNCHANGED <<pc, networks_active, nodes_dict, edges_dict, config, disk_config,
                   written, data_files, runs,
                   builder_nodes, file_nodes, pool, csv_file>>

SaveCopy(target, overwrite, level) ==
    /\ pc = "ready"
    /\ LET c == save_copy(fs, target, overwrite, level) IN
       /\ fs' = c.fs
       /\ sm_new' = c.mgr
       /\ ret' = [Ret("save_copy", c.res) EXCEPT
                    !.arg = overwrite,
                    !.warn = fs[target].exists /\ ~overwrite
                             /\ Warning("Folder exists; aborting.")]
    /\ UNCHANGED <<pc, networks_active, nodes_dict, edges_dict, config, disk_config,
                   written, data_files, runs,
                   builder_nodes, file_nodes, pool, csv_file>>

\* self.save_complete(folder_path)
SaveComplete ==
    /\ pc = "ready"
    /\ ret' = Ret("save_complete", save_complete(sim_folder))
    /\ UNCHANGED <<pc, networks_active, nodes_dict, edges_dict, config, disk_config,
                   written, data_files, fs, sm_new, runs,
                   builder_nodes, file_nodes, pool, csv_file>>

\* self.files_list
FilesList ==
    /\ pc = "ready"
    /\ ret' = Ret("files_list", "NotImplementedError")
    /\ UNCHANGED <<pc, networks_active, nodes_dict, edges_dict, config, disk_config,
                   written, data_files, fs, sm_new, runs,
                   builder_nodes, file_nodes, pool, csv_file>>

\* self.clear_output()
ClearOutput ==
    /\ pc = "ready"
    /\ fs' = [fs EXCEPT ![sim_folder] = clear_output(@)]
    /\ ret' = Ret("none", "ok")
    /\ UNCHANGED <<pc, networks_active, nodes_dict, edges_dict, config, disk_config,
                   written, data_files, sm_new, runs,
                   builder_nodes, file_nodes, pool, csv_file>>

\* copy_sim_for_new_cell(sm, cell_id, folder, overwrite, level, config_dict)
CopySimForNewCell(target, overwrite, level, config_dict) ==
    /\ pc = "ready"
    /\ LET c == copy_sim(fs, target, overwrite, level, config_dict) IN
       /\ fs' = c.fs
       /\ ret' = [Ret("copy_sim_for_new_cell", c.res) EXCEPT !.arg = overwrite]
    /\ sm_new' = NoManager
    /\ UNCHANGED <<pc, networks_active, nodes_dict, edges_dict, config, disk_config,
                   written, data_files, runs,
                   builder_nodes, file_nodes, pool, csv_file>>

\* copy_sim_for_hof(sm, cell_id, hof_id, folder, overwrite, level): the level is
\* not handed on to save_copy
CopySimForHof(target, overwrite, level) ==
    /\ pc = "ready"
    /\ LET c == copy_sim(fs, target, overwrite, "folder", FALSE) IN
       /\ fs' = c.fs
       /\ ret' = [Ret("copy_sim_for_hof", c.res) EXCEPT !.arg = overwrite]
    /\ sm_new' = NoManager
    /\ UNCHANGED <<pc, networks_active, nodes_dict, edges_dict, config, disk_config,
                   written, data_files, runs,
                   builder_nodes, file_nodes, pool, csv_file>>

\* the manager's folder, with or without saved networks and run outputs, and a
\* target folder that does not exist, is empty or holds an older simulation
SourceFolders ==
    {[exists |-> TRUE, config |-> ConfigFile("source", p),
      network |-> IF p = "none" THEN "none" ELSE "orig", output |-> o] :
        p \in {"none", "rel", "src"}, o \in BOOLEAN}

TargetFolders ==
    {NoFolder, EmptyFolder} \cup
    {[exists |-> TRUE, config |-> ConfigFile("old", p),
      network |-> IF p = "none" THEN "none" ELSE "orig", output |-> o] :
        p \in {"none", "rel"}, o \in BOOLEAN}

InitFs ==
    /\ pc = "ready"
    /\ networks_active = <<>>
    /\ nodes_dict = <<>>
    /\ edges_dict = <<>>
    /\ config = NoNetworksConfig
    /\ disk_config = NoNetworksConfig
    /\ written = <<>>
    /\ ret = Ret("none", "ok")
    /\ data_files = {}
    /\ fs \in [src : SourceFolders, tgt : TargetFolders]
    /\ sm_new = NoManager
    /\ runs = NoRun
    /\ builder_nodes = <<>>
    /\ file_nodes = <<>>
    /\ pool = NoPool
    /\ csv_file = NoCsv

NextFs ==
    \/ \E f \in Folders : Open(f)
    \/ \E f \in Folders, o \in BOOLEAN : FromTemplate(f, o)
    \/ \E t \in Folders, o \in BOOLEAN, l \in Levels : SaveCopy(t, o, l)
    \/ SaveComplete
    \/ FilesList
    \/ ClearOutput
    \/ \E t \in Folders, o \in BOOLEAN, l \in Levels, d \in BOOLEAN :
          CopySimForNewCell(t, o, l, d)
    \/ \E t \in Folders, o \in BOOLEAN, l \in Levels : CopySimForHof(t, o, l)

SpecFs == InitFs /\ [][NextFs]_vars

\* -------------------------------------------------------- the external runner
\* self.config_path: the path the manager's config file was loaded from
config_path == <<"sim_folder/", "config", ".json">>

\* the runner is invoked without a save: the file is as the last save left it
run_save_skipped(cfg, disk) == disk

\* self.config.save(), the first statement of run_bionet and run_bionet_mpi
run_save(cfg, disk) == ConfigSave(cfg)

\* runner.run_bionet(path) and runner.run_bionet_mpi(path, ncores): the runner
\* reads the config file found at the path it is given
runner_run(op, path, ncores, disk) ==
    [op |-> op, path |-> path, ncores |-> ncores,
     doc |-> IF path = config_path THEN ConfigFromJson(disk) ELSE <<>>]

Run(op, ncores) ==
    /\ pc = "ready"
    /\ disk_config' = run_save(config, disk_config)
    /\ runs' = runner_run(op, config_path, ncores, disk_config')
    /\ ret' = Ret("none", "ok")
    /\ UNCHANGED <<pc, networks_active, nodes_dict, edges_dict, config, written,
                   data_files, fs, sm_new,
                   builder_nodes, file_nodes, pool, csv_file>>

RunBionet == Run("run_bionet", 0)

RunBionetMpi(ncores) == Run("run_bionet_mpi", ncores)

Cores == {1, 2}

\* a manager whose document is changed, with and without a save, and then run
NextRun ==
    \/ \E n \in CfgNets : NewNetwork(n)
    \/ \E a \in BOOLEAN : SaveNetworkFiles(a)
    \/ \E c \in BOOLEAN : AddEcpReport(<<>>, c)
    \/ \E data \in CallerPayloads : UpdateNested(data)
    \/ SetSimTime(<<"t1">>)
    \/ RunBionet
    \/ \E n \in Cores : RunBionetMpi(n)

SpecRun == InitCfg /\ [][NextRun]_vars

\* ------------------------------------------------ inputs written per node
\* net.add_nodes(N=count, ...) on the builder of an active network
AddNodes(net_name, count) ==
    /\ pc = "ready"
    /\ HasKey(networks_active, net_name)
    /\ NodeCount(net_name) + count <= MaxNodes
    /\ builder_nodes' = (net_name :> (NodeCount(net_name) + count)) @@ builder_nodes
    /\ ret' = Ret("none", "ok")
    /\ UNCHANGED <<pc, networks_active, nodes_dict, edges_dict, config, disk_config,
                   written, data_files, fs, sm_new, runs, file_nodes, pool, csv_file>>

\* managers with no, one and two active networks, constructed from a config
\* with no saved network or with the saved network "s"
RECURSIVE BuildersOf(_)
BuildersOf(names) ==
    IF names = <<>> THEN <<>>
    ELSE add_network(BuildersOf(Tail(names)), NetworkBuilder(Head(names)))

NodeNets == {<<"a">>, <<"b">>, <<"s">>}

SavedConfig ==
    [RichConfig EXCEPT !.nodes = <<NodesDesc("VAR", <<"s">>)>>]

InitNodes ==
    /\ pc = "ready"
    /\ networks_active \in {BuildersOf(ns) : ns \in {<<>>, << <<"a">> >>, << <<"a">>, <<"b">> >>}}
    /\ disk_config \in {RichConfig, SavedConfig}
    /\ config = ConfigFromJson(disk_config)
    /\ nodes_dict = load_networks(disk_config, FALSE).nodes
    /\ edges_dict = load_networks(disk_config, FALSE).edges
    /\ written = <<>>
    /\ ret = Ret("none", "ok")
    /\ data_files = {}
    /\ fs = NoFs
    /\ sm_new = NoManager
    /\ runs = NoRun
    /\ builder_nodes = <<>>
    /\ file_nodes = <<>>
    /\ pool = NoPool
    /\ csv_file = NoCsv

NextNodes ==
    \/ \E n \in NodeNets, k \in 1..MaxNodes : AddNodes(n, k)
    \/ \E n \in NodeNets, a \in BOOLEAN : AddSpikeInputPoisson(n, a, TRUE)

SpecNodes == InitNodes /\ [][NextNodes]_vars

\* the file-writing input methods called on managers whose active networks
\* hold nodes: "a" one node, "b" two
BuiltNodes == (<<"a">> :> 1) @@ (<<"b">> :> 2)

InitInputs ==
    /\ pc = "ready"
    /\ networks_active \in {BuildersOf(ns) : ns \in {<<>>, << <<"a">> >>, << <<"a">>, <<"b">> >>}}
    /\ disk_config \in {RichConfig, SavedConfig}
    /\ config = ConfigFromJson(disk_config)
    /\ nodes_dict = load_networks(disk_config, FALSE).nodes
    /\ edges_dict = load_networks(disk_config, FALSE).edges
    /\ written = <<>>
    /\ ret = Ret("none", "ok")
    /\ data_files = {}
    /\ fs = NoFs
    /\ sm_new = NoManager
    /\ runs = NoRun
    /\ builder_nodes = [n \in KeySet(networks_active) |-> BuiltNodes[n]]
    /\ file_nodes = <<>>
    /\ pool = NoPool
    /\ csv_file = NoCsv

NextInputs ==
    \/ \E n \in NodeNets, a, w \in BOOLEAN : AddCurrentClampComplex(n, a, <<>>, w)
    \/ \E n \in NodeNets, a, w \in BOOLEAN : AddSpikeInputVector(n, a, w)
    \/ \E n \in NodeNets, a, w \in BOOLEAN : AddSpikeInputPoisson(n, a, w)

SpecInputs == InitInputs /\ [][NextInputs]_vars

\* ---------------------------------------------- paths of the saved networks
\* nodes_file(net) and node_types_file(net) with the name given
nodes_file(nd, net) ==
    IF HasKey(nd, net) THEN [res |-> "ok", file |-> abspath(Get(nd, net).nodes_file)]
    ELSE [res |-> "KeyError", file |-> NoPath]

node_types_file(nd, net) ==
    IF HasKey(nd, net) THEN [res |-> "ok", file |-> abspath(Get(nd, net).node_types_file)]
    ELSE [res |-> "KeyError", file |-> NoPath]

\* update_node_type_props(net_name, props) on the manager's index of saved networks
update_node_type_props_of(nd, net_name) ==
    IF net_name \notin NetworksSaved(nd) THEN [res |-> "AssertionError", file |-> NoPath]
    ELSE update_csv(node_types_file(nd, net_name).file)

UpdateNodeTypeProps(net_name) ==
    /\ pc = "ready"
    /\ pc' = "returned"
    /\ LET r == update_node_type_props_of(nodes_dict, net_name) IN
       ret' = [Ret("update_node_type_props", r.res) EXCEPT !.name = net_name, !.file = r.file]
    /\ UNCHANGED <<networks_active, nodes_dict, edges_dict, config, disk_config, written,
                   data_files, fs, sm_new, runs, builder_nodes, file_nodes, pool, csv_file>>

\* the names the calls are made with: two new networks and the saved one
PathNets == {<<"a">>, <<"b">>, <<"s">>}

\* a manager constructed from a config without networks or with the saved network "s"
InitPaths ==
    /\ pc = "ready"
    /\ networks_active = <<>>
    /\ disk_config \in {RichConfig, SavedConfig}
    /\ config = ConfigFromJson(disk_config)
    /\ nodes_dict = load_networks(disk_config, FALSE).nodes
    /\ edges_dict = load_networks(disk_config, FALSE).edges
    /\ written = <<>>
    /\ ret = Ret("none", "ok")
    /\ data_files = {}
    /\ fs = NoFs
    /\ sm_new = NoManager
    /\ runs = NoRun
    /\ builder_nodes = <<>>
    /\ file_nodes = <<>>
    /\ pool = NoPool
    /\ csv_file = NoCsv

NextPaths ==
    \/ \E n \in PathNets : NewNetwork(n)
    \/ \E a \in BOOLEAN : SaveNetworkFiles(a)
    \/ \E n \in PathNets : UpdateNodeTypeProps(n)
    \/ NodesFileDefault
    \/ NodeTypesFileDefault
    \/ Return

SpecPaths == InitPaths /\ [][NextPaths]_vars

\* ------------------------------------------------- update_csv, the contents
\* a csv file is its header line and its data rows; a row read by DictReader is
\* a dict from the header's names to the values of the line
MaxRows == 2

Columns == {"c1", "c2"}
CellValues == {"u", "v"}

\* reader = csv.DictReader(csvfile, delimiter=' '): the rows of the file
DictReader(file) ==
    [i \in 1..Len(file.rows) |->
        [k \in 1..Len(file.header) |-> [key |-> file.header[k], val |-> file.rows[i][k]]]]

\* dict(row, **props)
RECURSIVE dict_update(_, _)
dict_update(row, props) ==
    IF props = <<>> THEN row
    ELSE dict_update(DictSet(row, Head(props).key, Head(props).val), Tail(props))

\* open(csv_path, 'w'): the file is emptied
Truncated == [header |-> <<>>, rows |-> <<>>]

\* update_csv(csv_path, props): the rows are read and updated, the file is opened
\* for writing, rows[0].keys() gives the field names, header and rows are written
update_csv_file(file, props) ==
    LET rows == [i \in 1..Len(file.rows) |-> dict_update(DictReader(file)[i], props)] IN
    IF rows = <<>> THEN [res |-> "IndexError", file |-> Truncated]
    ELSE [res |-> "ok",
          file |-> [header |-> Keys(rows[1]),
                    rows |-> [i \in 1..Len(rows) |-> Values(rows[i])]]]

UpdateCsv(props) ==
    /\ pc = "ready"
    /\ LET u == update_csv_file(csv_file, props) IN
       /\ csv_file' = u.file
       /\ ret' = Ret("update_csv", u.res)
    /\ UNCHANGED <<pc, networks_active, nodes_dict, edges_dict, config, disk_config,
                   written, data_files, fs, sm_new, runs, builder_nodes, file_nodes, pool>>

\* the props a caller hands in: a column of the file, a new column, or both
CsvProps ==
    {<<[key |-> "c1", val |-> "p"]>>,
     <<[key |-> "new", val |-> "q"]>>,
     <<[key |-> "new", val |-> "q"], [key |-> "c2", val |-> "p"]>>}

CsvHeaders == {<<>>, <<"c1">>, <<"c1", "c2">>, <<"c2", "c1">>}

\* files with no line at all, with a header only, and with up to MaxRows rows
InitCsv ==
    /\ pc = "ready"
    /\ networks_active = <<>>
    /\ disk_config = RichConfig
    /\ config = ConfigFromJson(disk_config)
    /\ nodes_dict = load_networks(disk_config, FALSE).nodes
    /\ edges_dict = load_networks(disk_config, FALSE).edges
    /\ written = <<>>
    /\ ret = Ret("none", "ok")
    /\ data_files = {}
    /\ fs = NoFs
    /\ sm_new = NoManager
    /\ runs = NoRun
    /\ builder_nodes = <<>>
    /\ file_nodes = <<>>
    /\ pool = NoPool
    /\ \E h \in CsvHeaders :
          \E rows \in SeqsUpTo([1..Len(h) -> CellValues], IF h = <<>> THEN 0 ELSE MaxRows) :
              csv_file = [header |-> h, rows |-> rows]

NextCsv == \E props \in CsvProps : UpdateCsv(props)

SpecCsv == InitCsv /\ [][NextCsv]_vars

\* ------------------------------------------- scripts/tom/gene_corr_depth_frem.py

\* the variables of the simulation manager, which the script does not touch
manager_vars == <<pc, networks_active, nodes_dict, edges_dict, config, disk_config,
                  written, ret, data_files, fs, sm_new, runs, builder_nodes, file_nodes,
                  csv_file>>

\* len(genes) is at most MaxGenes, sys.argv[1] at most MaxBatch
MaxGenes == 4
MaxBatch == 2

\* the genes of one batch and the number of chunks they are split into
step == 3
nproc == 2

\* the ephys features every gene is correlated with
efeatures == <<"ef1", "ef2">>

Min(a, b) == IF a < b THEN a ELSE b

\* genes[start:end]
Slice(genes, start, end) == SubSeq(genes, start + 1, end)

\* the slice of batch n: start = int(n)*step, end = min(start+step, len(genes))
batch_slice(genes, n) == Slice(genes, n * step, Min(n * step + step, Len(genes)))

\* chunks of equal size: the remainder of the division is left out
array_split_even(ary, sections) ==
    LET q == Len(ary) \div sections IN
    [i \in 1..sections |-> SubSeq(ary, (i - 1) * q + 1, i * q)]

\* np.array_split(ary, sections): the first len % sections chunks hold
\* len // sections + 1 elements, the others len // sections
array_split(ary, sections) ==
    LET q == Len(ary) \div sections
        r == Len(ary) % sections
        offset(i) == (i - 1) * q + Min(i - 1, r)
        size(i) == IF i <= r THEN q + 1 ELSE q
    IN [i \in 1..sections |-> SubSeq(ary, offset(i) + 1, offset(i) + size(i))]

\* the records calc appends for one gene: none for a gene expressed in fewer
\* than five cells, otherwise one per ephys feature
gene_records(gene, low) ==
    IF gene \in low THEN <<>>
    ELSE [k \in 1..Len(efeatures) |-> [gene |-> gene, feature |-> efeatures[k]]]

\* calc(genes): the records of the genes of the chunk, in their order
RECURSIVE calc(_, _)
calc(genes, low) ==
    IF genes = <<>> THEN <<>>
    ELSE gene_records(Head(genes), low) \o calc(Tail(genes), low)

\* chain(*out)
RECURSIVE chain(_)
chain(out) == IF out = <<>> THEN <<>> ELSE Head(out) \o chain(Tail(out))

Pending == [st |-> "pending", rows |-> <<>>]

\* pool.map(calc, np.array_split(genes[start:end], nproc)) is entered: the
\* chunks are handed to the workers
PoolMap(n) ==
    /\ pool.at = "start"
    /\ pool' = [pool EXCEPT !.at = "map",
                            !.chunks = array_split(batch_slice(pool.genes, n), nproc),
                            !.results = [i \in 1..nproc |-> Pending]]
    /\ UNCHANGED manager_vars

\* a worker runs calc on chunk i and returns its records or raises
Worker(i, raises) ==
    /\ pool.at = "map"
    /\ i \in DOMAIN pool.results
    /\ pool.results[i].st = "pending"
    /\ pool' = [pool EXCEPT !.results[i] =
                    IF raises THEN [st |-> "raised", rows |-> <<>>]
                    ELSE [st |-> "done", rows |-> calc(pool.chunks[i], pool.low)]]
    /\ UNCHANGED manager_vars

\* pool.map returns the results of the chunks in chunk order once all are done
MapReturns ==
    /\ pool.at = "map"
    /\ \A i \in DOMAIN pool.results : pool.results[i].st = "done"
    /\ pool' = [pool EXCEPT !.at = "returned",
                            !.out = [i \in DOMAIN pool.results |-> pool.results[i].rows]]
    /\ UNCHANGED manager_vars

\* pool.map re-raises the exception of a worker; the script ends there
MapRaises ==
    /\ pool.at = "map"
    /\ \E i \in DOMAIN pool.results : pool.results[i].st = "raised"
    /\ pool' = [pool EXCEPT !.at = "raised"]
    /\ UNCHANGED manager_vars

\* metrics = DataFrame.from_records(chain(*out)); metrics.to_csv(...)
ToCsv ==
    /\ pool.at = "returned"
    /\ pool' = [pool EXCEPT !.at = "written", !.saved = TRUE, !.file = chain(pool.out)]
    /\ UNCHANGED manager_vars

\* the gene names are 1..len(genes); any of them may be expressed in too few cells
InitPool ==
    /\ pc = "ready"
    /\ networks_active = <<>>
    /\ disk_config = RichConfig
    /\ config = ConfigFromJson(disk_config)
    /\ nodes_dict = load_networks(disk_config, FALSE).nodes
    /\ edges_dict = load_networks(disk_config, FALSE).edges
    /\ written = <<>>
    /\ ret = Ret("none", "ok")
    /\ data_files = {}
    /\ fs = NoFs
    /\ sm_new = NoManager
    /\ runs = NoRun
    /\ builder_nodes = <<>>
    /\ file_nodes = <<>>
    /\ csv_file = NoCsv
    /\ \E len \in 0..MaxGenes : \E low \in SUBSET (1..len) :
          pool = [NoPool EXCEPT !.at = "start", !.genes = [g \in 1..len |-> g],
                                !.low = low]

NextPool ==
    \/ \E n \in 0..MaxBatch : PoolMap(n)
    \/ \E i \in 1..nproc, raises \in BOOLEAN : Worker(i, raises)
    \/ MapReturns
    \/ MapRaises
    \/ ToCsv

SpecPool == InitPool /\ [][NextPool]_vars

\* ------------------------------------------------------------------ claims
Registered == KeySet(networks_active) \cup NetworksSaved(nodes_dict)

NoDuplicates(seq) == \A i, j \in 1..Len(seq) : i # j => seq[i] # seq[j]

\* C1: no network name is registered more than once: the active set and the
\* saved set are disjoint, and the `networks` listing holds each name once.
C1_NamesUnique ==
    /\ KeySet(networks_active) \cap NetworksSaved(nodes_dict) = {}
    /\ NoDuplicates(Networks(networks_active, nodes_dict))

\* C2: new_network(name) on a name that is already active or saved fails with
\* AlreadyExists and leaves the registered network unchanged; on a new name it
\* registers an empty active network.
C2_NewNetworkRejectsExisting ==
    [][\A n \in Names :
          NewNetwork(n) =>
              IF n \in Registered
              THEN ret'.res = "AlreadyExists" /\ networks_active' = networks_active
              ELSE /\ ret'.res = "ok"
                   /\ Get(networks_active', n) = NetworkBuilder(n)]_vars

\* C3: default_network() returns the sole network's name when exactly one
\* network is registered, fails with the "no networks" error when none is, and
\* fails with an ambiguity error when two or more distinct ones are.
AmbiguityErrors == {"NotImplementedError", "MoreThanOneNetwork"}

C3_DefaultNetworkResolution ==
    (pc = "returned" /\ ret.op = "default_network") =>
        /\ Cardinality(Registered) = 0 => ret.res = "NoNetworks"
        /\ Cardinality(Registered) = 1 => ret.res = "ok" /\ ret.name \in Registered
        /\ Cardinality(Registered) >= 2 => ret.res \in AmbiguityErrors

\* C4: nodes_file(), node_types_file() and get_dynamics_param_vals() without a
\* network name resolve it as default_network does and propagate its errors:
\* "no networks" with none, the ambiguity error with several, and with exactly
\* one they proceed on that network.
OptionalNameOps == {"nodes_file", "node_types_file", "get_dynamics_param_vals"}

C4_OptionalNameUsesDefaultNetwork ==
    (pc = "returned" /\ ret.op \in OptionalNameOps) =>
        LET d == default_network(networks_active, nodes_dict) IN
        /\ d.res = "NoNetworks" => ret.res = "NoNetworks"
        /\ d.res \in AmbiguityErrors => ret.res \in AmbiguityErrors
        /\ d.res = "ok" => ret.name = d.name /\ ret.res \notin AmbiguityErrors

\* C5: a save_network_files call that directly follows another one writes no
\* file again and leaves the saved set, the edge index, the in-memory config
\* and the persisted config as the first call left them.
C5_SaveIdempotent ==
    [][\A a \in BOOLEAN :
          (ret.op = "save_network_files" /\ SaveNetworkFiles(a)) =>
              /\ written' = written
              /\ nodes_dict' = nodes_dict
              /\ edges_dict' = edges_dict
              /\ config' = config
              /\ disk_config' = disk_config]_vars

C5_Witness ==
    /\ ret.op = "save_network_files"
    /\ ret.rep = 2
    /\ Len(written) > 0
    /\ Len(edges_dict) > 0

\* C6: after save_network_files returns, every active network is in
\* networks_saved and the persisted config's networks.nodes holds exactly one
\* node descriptor per saved network (one entry, under the network directory,
\* for a template manager with one added network).
C6_SavedAfterSave ==
    ret.op = "save_network_files" =>
        /\ KeySet(networks_active) \subseteq NetworksSaved(nodes_dict)
        /\ disk_config.with_networks
        /\ Len(disk_config.nodes) = Cardinality(NetworksSaved(nodes_dict))
        /\ \A n \in NetworksSaved(nodes_dict) :
              \E i \in 1..Len(disk_config.nodes) :
                  disk_config.nodes[i] = Get(nodes_dict, n)
        /\ \A i \in 1..Len(disk_config.nodes) :
              ResolvePath(disk_config.nodes[i].nodes_file).dir = "ABS"

C6_Witness ==
    /\ ret.op = "save_network_files"
    /\ Len(networks_active) = 1
    /\ Len(written) > 0
    /\ Len(disk_config.nodes) = 1

\* C7: a manager constructed from the config that save_network_files wrote has
\* the same saved-network names and the same edge index (pairs and descriptors,
\* in order) as the manager that saved it, whatever the network names are.
ResolvedEdgeIndex(ed) ==
    [i \in 1..Len(ed) |->
        [key |-> ed[i].key,
         val |-> [j \in 1..Len(ed[i].val) |-> ResolveEdges(ed[i].val[j])]]]

C7_ReloadReconstructs ==
    ret.op = "save_network_files" =>
        LET m == load_networks(disk_config, FALSE) IN
        /\ m.ok
        /\ NetworksSaved(m.nodes) = NetworksSaved(nodes_dict)
        /\ m.edges = ResolvedEdgeIndex(edges_dict)

\* C8: right after a manager is constructed from a config, with import_nodes
\* false or true, no network of that config is in the active set.
JustLoaded == pc = "ready" /\ ret.op = "init"

LoadedNames ==
    {nodes_net_name(disk_config.nodes[i]) : i \in 1..Len(disk_config.nodes)}

Conforming(base) == Len(Split(base)) >= 3

C9_EdgePairDerivation ==
    ret.op = "init" =>
        \A i \in 1..Len(disk_config.edges) :
            LET base == disk_config.edges[i].edges_file.base IN
            IF Conforming(base)
            THEN /\ ret.res = "ok"
                 /\ HasKey(edges_dict, <<Split(base)[1], Split(base)[2]>>)
            ELSE ret.res # "ok" \/ ret.warn

\* C10: update_edge_type_props(src, dest, props) fails with "no such edge set"
\* and hands no file to update_csv when the index has no descriptor for the
\* pair; with several it updates the first descriptor's edge-types file and a
\* warning reaches the caller; with exactly one it updates that descriptor's
\* edge-types file without a warning.
C10_UpdateEdgeTypeProps ==
    (pc = "returned" /\ ret.op = "update_edge_type_props") =>
        IF ~HasKey(edges_dict, ret.pair)
        THEN ret.res = "NoEdges" /\ ret.file = NoPath
        ELSE LET edges == Get(edges_dict, ret.pair) IN
             /\ ret.res # "NoEdges"
             /\ ret.file = abspath(edges[1].edge_types_file)
             /\ ret.warn <=> Len(edges) > 1

\* every way NextCfg calls an add_* method, with the section it merges into and
\* the single-entry mapping it builds: P must hold of each call that returns
ForEveryAdd(P(_, _)) ==
    /\ \A n \in CfgNets, a \in BOOLEAN :
          AddCurrentClampComplex(n, a, <<>>, TRUE) /\ ret'.res = "ok"
              => P("inputs", current_clamp_complex_inputs(n, a, <<>>))
    /\ \A name \in {<<"IClamp">>, <<"x">>} :
          AddCurrentClampInput(name) => P("inputs", current_clamp_inputs(name))
    /\ \A n \in CfgNets, a \in BOOLEAN :
          AddSpikeInputVector(n, a, TRUE) /\ ret'.res = "ok"
              => P("inputs", spike_inputs(IF a THEN abspath_name(<<"spike", "_", "input", ".csv">>)
                                          ELSE <<"spike", "_", "input", ".csv">>, n, None, <<>>))
    /\ \A n \in CfgNets, a \in BOOLEAN :
          AddSpikeInputPoisson(n, a, TRUE) /\ ret'.res = "ok"
              => P("inputs", spike_inputs(IF a THEN abspath_name(<<"spike", "_", "input", ".h5">>)
                                          ELSE <<"spike", "_", "input", ".h5">>, n, None, <<>>))
    /\ \A n \in CfgNets, name \in EntryNames :
          LinkSpikeInputFile(<<"ext", ".h5">>, n, name)
              => P("inputs", spike_inputs(<<"ext", ".h5">>, n, None, name))
    /\ \A f \in {<<>>, <<"probe", ".csv">>}, c \in BOOLEAN :
          AddEcpReport(f, c) => P("reports", ecp_reports(f, c))
    /\ \A name \in {<<"membrane", "_", "report">>, <<"x">>},
          kwargs \in {<<>>, "extra" :> Leaf(<<"kw">>)} :
          AddMembraneReport(name, kwargs) => P("reports", membrane_reports(name, kwargs))

PersistedNext(section, entry) ==
    /\ disk_config' = config'
    /\ entry.name \in DOMAIN Section(disk_config', section)

\* C11: when an add_* method returns, the config file on disk holds the entry
\* it added and equals the in-memory config document
C11_AddPersists == [][ForEveryAdd(PersistedNext)]_vars

OverwrittenNext(section, entry) ==
    Section(config', section)[entry.name] = entry.data[entry.name]

\* C12: after an add_* method returns, the entry under its name is exactly the
\* descriptor that call built: nothing of an earlier entry of that name is left
C12_CollisionOverwrites == [][ForEveryAdd(OverwrittenNext)]_vars

FrameNext(section, entry) ==
    /\ DOMAIN config'.doc = DOMAIN config.doc \cup {section}
    /\ \A s \in DOMAIN config.doc \ {section} : config'.doc[s] = config.doc[s]
    /\ DOMAIN Section(config', section) = DOMAIN Section(config, section) \cup {entry.name}
    /\ \A k \in DOMAIN Section(config, section) \ {entry.name} :
          Section(config', section)[k] = Section(config, section)[k]
    /\ config'.with_networks = config.with_networks
    /\ config'.nodes = config.nodes
    /\ config'.edges = config.edges
    /\ config'.net_other = config.net_other

\* C13: an add_* method that adds entry n leaves every other entry of inputs
\* and reports, every other section and the networks block as they were
C13_AddFrame == [][ForEveryAdd(FrameNext)]_vars

\* an input was added beside another one and saved, in a document that holds a
\* key the manager does not know and a key of `networks` it does not know
C13_Witness ==
    /\ Cardinality(DOMAIN Section(config, "inputs")) = 2
    /\ disk_config = config
    /\ "x_custom" \in DOMAIN config.doc
    /\ config.net_other # <<>>

RunFrameNext(key, value) ==
    /\ DOMAIN config'.doc = DOMAIN config.doc
    /\ \A s \in DOMAIN config.doc \ {"run"} : config'.doc[s] = config.doc[s]
    /\ DOMAIN Section(config', "run") = DOMAIN Section(config, "run") \cup {key}
    /\ \A k \in DOMAIN Section(config, "run") \ {key} :
          Section(config', "run")[k] = Section(config, "run")[k]
    /\ Section(config', "run")[key] = Leaf(value)
    /\ config'.with_networks = config.with_networks
    /\ config'.nodes = config.nodes
    /\ config'.edges = config.edges
    /\ config'.net_other = config.net_other

MergePayloads ==
    {"components" :> Map("biophysical_neuron_models_dir" :> Leaf(<<"optim">>)),
     "reports" :> Map(membrane_reports(<<"x">>, <<>>).data),
     "run" :> Map("tstop" :> Leaf(<<"t2">>)),
     "conditions" :> Leaf(None),
     "x_custom" :> Map("k" :> Leaf(<<"new">>)),
     ("run" :> Map("dt" :> Leaf(<<"dt2">>))) @@ ("inputs" :> Map(current_clamp_inputs(<<"x">>).data))}

\* C16: two merges with disjoint top-level keys, in either order, give the
\* document that one merge of the combined payload gives
C16_UpdateNestedDisjoint ==
    \A p1, p2 \in MergePayloads :
        DOMAIN p1 \cap DOMAIN p2 = {} =>
            LET both == update_nested(config.doc, p1 @@ p2) IN
            /\ update_nested(update_nested(config.doc, p1), p2) = both
            /\ update_nested(update_nested(config.doc, p2), p1) = both

\* the document build_sim_manager leaves: the components merged, then the
\* default membrane report, then the stop time
C16_Witness ==
    /\ "run" \in DOMAIN config.doc
    /\ config.doc["components"].m["biophysical_neuron_models_dir"] = Leaf(<<"optim">>)
    /\ <<"membrane", "_", "report">> \in DOMAIN Section(config, "reports")
    /\ config.doc["run"].m["tstop"] = Leaf(<<"t1">>)
    /\ "x_custom" \in DOMAIN config.doc

\* C17: constructing a manager on a path with no config file fails with
\* NotFound; from_template copies the template to the path, fails when the
\* config file exists and overwrite is not requested, and with overwrite
\* replaces the existing config by the template
C17_TemplateFailsOnExisting ==
    [][/\ \A f \in Folders :
             Open(f) /\ fs[f].config = NoFile => ret'.res = "NotFound" /\ sm_new' = NoManager
       /\ \A f \in Folders, o \in BOOLEAN :
             FromTemplate(f, o) =>
                 IF fs[f].config # NoFile /\ ~o
                 THEN ret'.res # "ok" /\ sm_new' = NoManager
                 ELSE /\ ret'.res = "ok"
                      /\ fs'[f].config = TemplateFile
                      /\ sm_new' = [folder |-> f, config |-> TemplateFile]]_vars

\* C17 as amended: as above, but when the config file exists and overwrite is
\* not requested from_template leaves every file as it is and returns a
\* manager of the existing config
C17_TemplateLoadsExisting ==
    [][/\ \A f \in Folders :
             Open(f) /\ fs[f].config = NoFile => ret'.res = "NotFound" /\ sm_new' = NoManager
       /\ \A f \in Folders, o \in BOOLEAN :
             FromTemplate(f, o) =>
                 IF fs[f].config # NoFile /\ ~o
                 THEN /\ ret'.res = "ok"
                      /\ fs' = fs
                      /\ sm_new' = [folder |-> f, config |-> fs[f].config]
                 ELSE /\ ret'.res = "ok"
                      /\ fs'[f].config = TemplateFile
                      /\ sm_new' = [folder |-> f, config |-> TemplateFile]]_vars

\* from_template without overwrite returned a manager of the older config
\* that was in the target folder
C17_Witness ==
    /\ ret.op = "from_template"
    /\ ~ret.arg
    /\ sm_new = [folder |-> "tgt", config |-> fs.tgt.config]
    /\ fs.tgt.config.origin = "old"

\* C18: save_copy without overwrite on a target folder that exists warns and
\* does nothing: no file of the target is created, changed or deleted, no
\* manager is returned, and copy_sim_for_new_cell and copy_sim_for_hof change
\* no file either
C18_SaveCopyExistingWarns ==
    [][\A t \in Folders, l \in Levels :
          fs[t].exists =>
              /\ SaveCopy(t, FALSE, l) => fs' = fs /\ sm_new' = NoManager /\ ret'.warn
              /\ \A d \in BOOLEAN : CopySimForNewCell(t, FALSE, l, d) => fs' = fs
              /\ CopySimForHof(t, FALSE, l) => fs' = fs]_vars

\* C19: a save_copy of level 'folder' or 'network' that returns a manager
\* leaves the copy without run outputs, and the manager is the one of the
\* source's config file as copied into the target folder
C19_CopyOutputCleared ==
    [][\A t \in Folders, o \in BOOLEAN, l \in {"folder", "network"} :
          SaveCopy(t, o, l) /\ ret'.res = "ok" /\ sm_new' # NoManager =>
              /\ fs'[t].exists
              /\ ~fs'[t].output
              /\ fs'[t].config = fs[sim_folder].config
              /\ sm_new' = [folder |-> t, config |-> fs'[t].config]]_vars

\* a source with run outputs was copied over an existing target
C19_Witness ==
    /\ ret.op = "save_copy"
    /\ ret.res = "ok"
    /\ ret.arg
    /\ fs.src.output
    /\ fs.tgt.exists
    /\ ~fs.tgt.output
    /\ fs.tgt.config.origin = "source"
    /\ sm_new = [folder |-> "tgt", config |-> fs.tgt.config]

\* C20: save_complete, files_list and save_copy with level 'complete' always
\* end in NotImplementedError
C20_StubsAlwaysRaise ==
    [][/\ SaveComplete => ret'.res = "NotImplementedError"
       /\ FilesList => ret'.res = "NotImplementedError"
       /\ \A t \in Folders, o \in BOOLEAN :
             SaveCopy(t, o, "complete") => ret'.res = "NotImplementedError"]_vars

\* C20 as amended: save_copy with level 'complete' ends in NotImplementedError
\* when the target does not exist or overwrite is requested; on an existing
\* target without overwrite it returns nothing and changes no file
C20_StubsRaisePastTargetCheck ==
    [][/\ SaveComplete => ret'.res = "NotImplementedError"
       /\ FilesList => ret'.res = "NotImplementedError"
       /\ \A t \in Folders, o \in BOOLEAN :
             SaveCopy(t, o, "complete") =>
                 IF fs[t].exists /\ ~o
                 THEN ret'.res = "ok" /\ sm_new' = NoManager /\ fs' = fs
                 ELSE ret'.res = "NotImplementedError" /\ sm_new' = NoManager]_vars

\* save_copy with level 'complete' reached save_complete
C20_Witness ==
    /\ ret.op = "save_copy"
    /\ ret.res = "NotImplementedError"
    /\ ~fs.tgt.exists

\* C21: run_bionet and run_bionet_mpi save the config before they invoke the
\* runner and hand it the path of that config: the document the runner reads
\* is the manager's in-memory document, and so is the file
C21_SaveBeforeRun ==
    [][\A op \in {"run_bionet", "run_bionet_mpi"}, n \in Cores \cup {0} :
          Run(op, n) =>
              /\ runs'.op = op
              /\ runs'.path = config_path
              /\ runs'.doc = config
              /\ disk_config' = config]_vars

\* the runner was started on a document with a report that was merged in
\* memory and never saved by the call that added it
C21_Witness ==
    /\ runs.op = "run_bionet_mpi"
    /\ runs.doc = config
    /\ <<"ecp", "_", "report">> \in DOMAIN Section(runs.doc, "reports")
    /\ runs.doc.doc["components"].m["biophysical_neuron_models_dir"] = Leaf(<<"optim">>)

PoissonFile == <<"spike", "_", "input", ".h5">>

\* C22: add_spike_input_poisson on a network of k nodes writes a spike file
\* for exactly the k node ids of that network and registers the input
\* <net>_spikes, whose module is the extension of the spike file and whose
\* node_set is the network name
C22_PoissonSpikes ==
    [][\A n \in NodeNets, a \in BOOLEAN :
          AddSpikeInputPoisson(n, a, TRUE) /\ ret'.res = "ok" =>
              /\ PoissonFile \in data_files'
              /\ PoissonFile \in DOMAIN file_nodes'
              /\ file_nodes'[PoissonFile] = {i \in 0..MaxNodes : i < NodeCount(n)}
              /\ Cardinality(file_nodes'[PoissonFile]) = NodeCount(n)
              /\ (n \o <<"_", "spikes">>) \in DOMAIN Section(config', "inputs")
              /\ LET entry == Section(config', "inputs")[n \o <<"_", "spikes">>].m
                     linked == entry["input_file"].v
                 IN /\ entry["module"] = Leaf(<<"h5">>)
                    /\ linked[Len(linked)] = ".h5"
                    /\ linked \in {PoissonFile, abspath_name(PoissonFile)}
                    /\ entry["node_set"] = Leaf(n)]_vars

\* a Poisson spike file was written for a network of two nodes beside a
\* network of another size, and its input is in the saved config
C22_Witness ==
    /\ PoissonFile \in DOMAIN file_nodes
    /\ file_nodes[PoissonFile] = {0, 1}
    /\ <<"a", "_", "spikes">> \in DOMAIN Section(disk_config, "inputs")
    /\ NodeCount(<<"a">>) = 2
    /\ NodeCount(<<"b">>) = 1

\* the file a registered input_file pointer refers to, in the simulation folder
data_file_of(input_file) ==
    IF input_file # <<>> /\ Head(input_file) = "sim_folder/" THEN Tail(input_file)
    ELSE input_file

PointersWritten ==
    \A name \in DOMAIN Section(disk_config, "inputs") :
        LET entry == Section(disk_config, "inputs")[name].m IN
        "input_file" \in DOMAIN entry =>
            data_file_of(entry["input_file"].v) \in data_files

\* C23: every input entry of the saved config that add_spike_input_vector,
\* add_spike_input_poisson or add_current_clamp_complex created points to a
\* data file that has been written, and a call whose write of the data file
\* fails leaves the config in memory and on disk as it was
C23_FileBeforePointer ==
    [][/\ PointersWritten'
       /\ ret'.res \in {"IOError", "KeyError"}
             => UNCHANGED <<config, disk_config, data_files>>]_vars

\* a write failed after an entry of an earlier call was registered
C23_Witness ==
    /\ ret.res = "IOError"
    /\ <<"a", "_", "spikes">> \in DOMAIN Section(disk_config, "inputs")
    /\ PoissonFile \in data_files
    /\ <<"a", "_", "current", ".csv">> \notin data_files

\* the networks a save_network_files call writes, and what it wrote for them
NewlySaved == KeySet(networks_active) \ NetworksSaved(nodes_dict)

WrittenFor(n) == NetSave(Get(networks_active, n)).nodes_dict

\* C25: after save_network_files, with relative or absolute paths, nodes_file
\* and node_types_file of a network it wrote return the files written, on the
\* same manager and on a manager loaded from the saved config, and
\* update_node_type_props edits the written node-types file
C25_SavedPathsAreWritten ==
    [][/\ \A a \in BOOLEAN : SaveNetworkFiles(a) =>
             \A n \in NewlySaved :
                 LET fresh == load_networks(disk_config', FALSE).nodes IN
                 /\ nodes_file(nodes_dict', n) = [res |-> "ok", file |-> WrittenFor(n).nodes_file]
                 /\ node_types_file(nodes_dict', n) =
                        [res |-> "ok", file |-> WrittenFor(n).node_types_file]
                 /\ nodes_file(fresh, n) = nodes_file(nodes_dict', n)
                 /\ node_types_file(fresh, n) = node_types_file(nodes_dict', n)
       /\ \A n \in PathNets :
             UpdateNodeTypeProps(n) /\ n \in NetworksSaved(nodes_dict) =>
                 /\ ret'.res = "ok"
                 /\ FileExists(ret'.file)]_vars

\* C26: save_copy leaves the source simulation folder as it was, its config,
\* network files and output directory, for every target (the source folder
\* included), overwrite flag and level
C26_SaveCopyKeepsSource ==
    [][\A t \in Folders, o \in BOOLEAN, l \in Levels :
          SaveCopy(t, o, l) => fs'[sim_folder] = fs[sim_folder]]_vars

\* C27: a save_copy call that ends in an error leaves the target directory as
\* it was, an existing target of save_copy(target, overwrite=True,
\* level='complete') included
C27_FailedSaveCopyKeepsTarget ==
    [][\A t \in Folders, o \in BOOLEAN, l \in Levels :
          SaveCopy(t, o, l) /\ ret'.res # "ok" => fs'[t] = fs[t]]_vars

\* the value of column k in row i of a csv file
Cell(file, i, k) ==
    file.rows[i][CHOOSE j \in 1..Len(file.header) : file.header[j] = k]

HeaderSet(file) == {file.header[j] : j \in 1..Len(file.header)}

\* every key of props holds its value in every row, the rows are as many and
\* the other columns hold what they held, in the order they had
CsvUpdated(old, new, props) ==
    /\ Len(new.rows) = Len(old.rows)
    /\ KeySet(props) \subseteq HeaderSet(new)
    /\ HeaderSet(new) = HeaderSet(old) \cup KeySet(props)
    /\ SubSeq(new.header, 1, Len(old.header)) = old.header
    /\ \A i \in 1..Len(new.rows) :
          /\ \A k \in KeySet(props) : Cell(new, i, k) = Get(props, k)
          /\ \A k \in HeaderSet(old) \ KeySet(props) : Cell(new, i, k) = Cell(old, i, k)

\* C28: update_csv sets every key of props in every data row and keeps the
\* rows and the other columns; when it fails, on a file with a header and no
\* data row for one, the file and its header are as they were
C28_UpdateCsvAtomic ==
    [][\A props \in CsvProps :
          UpdateCsv(props) =>
              IF ret'.res = "ok" THEN CsvUpdated(csv_file, csv_file', props)
              ELSE csv_file' = csv_file]_vars

\* C29: add_current_clamp_complex, add_spike_input_vector and
\* add_spike_input_poisson succeed for every registered network, active or
\* loaded as saved, when the data file can be written; for a network that is
\* not registered they fail, write no data file and leave the config as it was
C29_InputsForRegistered ==
    [][\A n \in NodeNets, a \in BOOLEAN, w \in BOOLEAN :
          (\/ AddCurrentClampComplex(n, a, <<>>, w)
           \/ AddSpikeInputVector(n, a, w)
           \/ AddSpikeInputPoisson(n, a, w)) =>
              IF n \in Registered
              THEN w => ret'.res = "ok"
              ELSE /\ ret'.res # "ok"
                   /\ UNCHANGED <<config, disk_config, data_files, file_nodes>>]_vars

\* the genes of the batch handed to pool.map
BatchGenes ==
    {g \in 1..Len(pool.genes) :
        \E i \in DOMAIN pool.chunks : \E k \in DOMAIN pool.chunks[i] : pool.chunks[i][k] = g}

SliceOf(n) == {batch_slice(pool.genes, n)[k] : k \in DOMAIN batch_slice(pool.genes, n)}

\* C24: every gene of the batch is in the input of exactly one worker; the
\* file is written only when every worker has completed and holds the records
\* of the chunks in chunk order; when a worker has raised no file is written
C24_PoolPartitionAndOutput ==
    pool.at \notin {"none", "start"} =>
        /\ \E n \in 0..MaxBatch :
              /\ BatchGenes = SliceOf(n)
              /\ chain(pool.chunks) = batch_slice(pool.genes, n)
        /\ \A g \in BatchGenes :
              Cardinality({<<i, k>> \in (1..nproc) \X (1..MaxGenes) :
                              /\ k \in DOMAIN pool.chunks[i]
                              /\ pool.chunks[i][k] = g}) = 1
        /\ pool.saved =>
              /\ \A i \in DOMAIN pool.results : pool.results[i].st = "done"
              /\ pool.file = chain([i \in 1..nproc |-> calc(pool.chunks[i], pool.low)])
              /\ pool.at = "written"
        /\ (\E i \in DOMAIN pool.results : pool.results[i].st = "raised")
              => ~pool.saved
        /\ pool.at = "raised" => ~pool.saved

\* a batch split unevenly over the workers was written, a gene of the second
\* chunk having too little expression
C24_Witness ==
    /\ pool.at = "written"
    /\ Len(pool.chunks[1]) > Len(pool.chunks[2])
    /\ Len(pool.chunks[2]) > 0
    /\ Len(pool.file) = Len(efeatures) * (Len(pool.chunks[1]) + Len(pool.chunks[2]) - 1)
    /\ pool.file[Len(pool.file)].gene \in BatchGenes \ pool.low

====
